---- MODULE Spec2Model ----
(***************************************************************************)
(* Goal engine of mpg-assistant (src/mpg_goal_engine.py).                  *)
(*                                                                         *)
(* Ratings are multiples of half a point, so a rating r is held as the     *)
(* integer 2*r (5.0 -> 10, a penalty of 1.0 -> 2, of 0.5 -> 1).  A line     *)
(* average sum/len is held as the exact fraction [num |-> sum, den |-> len]*)
(* and compared by cross multiplication; for half-point ratings and at     *)
(* most 11 starters the float comparison of the code gives the same answer.*)
(* A payload dict is a record holding only the keys that are present:      *)
(* d.get(k) is None exactly when k is not in DOMAIN d.                      *)
(***************************************************************************)
EXTENDS Integers, Sequences, FiniteSets, TLC

VARIABLES
    raw,            \* walk: the payload entry the PlayerSlot was parsed from
    player,         \* walk: _simulate_virtual_goal's argument player
    opp_avgs,       \* walk: its argument opp_avgs
    is_home,        \* walk: its argument is_home
    i,              \* walk: loop index of enumerate(lines)
    penalty,        \* walk: local variable penalty
    wpc,            \* walk: position in _simulate_virtual_goal
    ret,            \* walk: the returned value, once wpc = "done"
    checks,         \* walk: the comparisons made so far, in order
    data,           \* match: the payload given to simulate_match
    use_mpg_goals,  \* match: TRUE = ground-truth mode, FALSE = probabilistic
    pc,             \* match: position in simulate_match
    home_result,    \* match: home TeamSimResult
    away_result,    \* match: away TeamSimResult
    extra,          \* match: number of further _apply_remove_goal calls made
    actual,         \* match: home_score_actual / away_score_actual of the result
    work,           \* call: the payload the last call simulated
    cf_side,        \* call: argument side of simulate_without_bonus
    cf_bonus,       \* call: argument bonus_type of simulate_without_bonus
    first_gt,       \* call: result of the first simulate_match of the payload
    rows,           \* corpus: the payloads the query returned, in order
    bonus_types,    \* corpus: argument bonus_types of analyze_bonus_impact
    val,            \* corpus: loop index and locals of validate, and its report
    agg             \* corpus: loop index and results of analyze_bonus_impact

walkVars == <<raw, player, opp_avgs, is_home, i, penalty, wpc, ret, checks>>
matchVars == <<data, use_mpg_goals, pc, home_result, away_result, extra, actual>>
callVars == <<work, cf_side, cf_bonus, first_gt>>
corpusVars == <<rows, bonus_types, val, agg>>
vars == <<raw, player, opp_avgs, is_home, i, penalty, wpc, ret, checks,
          data, use_mpg_goals, pc, home_result, away_result, extra, actual,
          work, cf_side, cf_bonus, first_gt, rows, bonus_types, val, agg>>

\* ---------------------------------------------------------------- constants

POSITION_GK == 1
POSITION_DEF == 2
POSITION_MID == 3
POSITION_FWD == 4

\* 5.0, the eligibility threshold of eligible_for_virtual
ELIGIBLE_MIN == 10

\* 5.0, the value of a line without players
DEFAULT_AVG == 10

\* slots 1..11 are starters, above is the bench
LAST_STARTER_SLOT == 11

\* a variant whose midfielder skips the midfield line
LINES_BY_POS_short_mid(pos) ==
    CASE pos = POSITION_FWD -> <<"def", "gk">>
      [] pos = POSITION_MID -> <<"def", "gk">>
      [] pos = POSITION_DEF -> <<"fwd", "mid", "def", "gk">>
      [] OTHER -> <<>>

LINES_BY_POS(pos) ==
    CASE pos = POSITION_FWD -> <<"def", "gk">>
      [] pos = POSITION_MID -> <<"mid", "def", "gk">>
      [] pos = POSITION_DEF -> <<"fwd", "mid", "def", "gk">>
      [] OTHER -> <<>>

\* ---------------------------------------------------------------- bounds

\* raw ratings of the walk's player range over MinRating..MaxRating (half points)
MinRating == ELIGIBLE_MIN - 1
MaxRating == 12

\* line values of the walk range over MinLine..MaxLine (half points)
MinLine == ELIGIBLE_MIN - 1
MaxLine == 11

\* goal counters range over 0..MaxGoals
MaxGoals == 1

\* further _apply_remove_goal calls made on a finished result
MaxExtra == 1

\* ---------------------------------------------------------------- helpers

\* dict.get(k, dflt); "d.get(k) or 0" is Get(d, k, 0)
Get(d, k, dflt) == IF k \in DOMAIN d THEN d[k] ELSE dflt

Has(d, k) == k \in DOMAIN d

Whole(n) == [num |-> n, den |-> 1]

\* ---------------------------------------------------------------- data types

\* PlayerSlot(...) as built by _parse_team_starters from players_map[pid]
PlayerSlot(slot, pid, p) ==
    [slot |-> slot,
     player_id |-> pid,
     position |-> Get(p, "position", 0),
     rating |-> p.rating,
     bonus_rating |-> Get(p, "bonusRating", 0),
     goals_real |-> Get(p, "goals", 0) + Get(p, "canceledGoal", 0),
     mpg_goals |-> Get(p, "mpgGoals", 0)]

effective_rating(p) == p.rating + p.bonus_rating

\* a variant without the goalkeeper test
eligible_for_virtual_no_gk_test(p) ==
    /\ p.goals_real = 0
    /\ effective_rating(p) >= ELIGIBLE_MIN

eligible_for_virtual(p) ==
    /\ p.goals_real = 0
    /\ p.position # POSITION_GK
    /\ effective_rating(p) >= ELIGIBLE_MIN

LineAverages_get(avgs, line) == avgs[line]

\* ---------------------------------------------------------------- the walk

\* a variant without the home tie-break
can_pass_line_strict(note, line_avg, home) ==
    note * line_avg.den > line_avg.num

_can_pass_line(note, line_avg, home) ==
    IF home THEN note * line_avg.den >= line_avg.num
            ELSE note * line_avg.den > line_avg.num

\* a variant charging 0.5 for every line
pen_flat(idx) == 1

\* pen = 1.0 if i == 0 else 0.5
pen(idx) == IF idx = 0 THEN 2 ELSE 1

RECURSIVE walk_from(_, _, _, _, _, _)
walk_from(note, lines, avgs, home, idx, pnlty) ==
    IF idx >= Len(lines) THEN TRUE
    ELSE IF ~_can_pass_line(note - pnlty, LineAverages_get(avgs, lines[idx + 1]), home)
         THEN FALSE
         ELSE walk_from(note, lines, avgs, home, idx + 1, pnlty + pen(idx))

_simulate_virtual_goal(p, avgs, home) ==
    IF ~eligible_for_virtual(p) THEN FALSE
    ELSE walk_from(effective_rating(p), LINES_BY_POS(p.position), avgs, home, 0, 0)

\* ---------------------------------------------------------------- parsing

\* int(slot_str) for the keys of playersOnPitch
int_of_slot(s) ==
    CASE s = "1" -> 1
      [] s = "2" -> 2
      [] s = "3" -> 3
      [] s = "12" -> 12

RECURSIVE sorted_by_slot(_)
sorted_by_slot(S) ==
    IF S = {} THEN <<>>
    ELSE LET m == CHOOSE x \in S : \A y \in S : int_of_slot(x) <= int_of_slot(y)
         IN <<m>> \o sorted_by_slot(S \ {m})

\* a variant that keeps the bench slots
valid_slots_with_bench(team_data) ==
    LET players_map == Get(team_data, "players", <<>>)
        pitch == Get(team_data, "playersOnPitch", <<>>)
    IN {s \in DOMAIN pitch :
           /\ Has(pitch[s], "playerId")
           /\ Has(Get(players_map, pitch[s].playerId, <<>>), "rating")}

\* the keys of playersOnPitch that give a PlayerSlot: a starter slot, a player
\* id, and a rating for that player
valid_slots(team_data) ==
    LET players_map == Get(team_data, "players", <<>>)
        pitch == Get(team_data, "playersOnPitch", <<>>)
    IN {s \in DOMAIN pitch :
           /\ int_of_slot(s) <= LAST_STARTER_SLOT
           /\ Has(pitch[s], "playerId")
           /\ Has(Get(players_map, pitch[s].playerId, <<>>), "rating")}

_parse_team_starters(team_data) ==
    LET players_map == Get(team_data, "players", <<>>)
        pitch == Get(team_data, "playersOnPitch", <<>>)
        order == sorted_by_slot(valid_slots(team_data))
    IN [k \in 1..Len(order) |->
           PlayerSlot(int_of_slot(order[k]), pitch[order[k]].playerId,
                      players_map[pitch[order[k]].playerId])]

RECURSIVE sum_eff(_, _, _)
sum_eff(starters, pos, k) ==
    IF k > Len(starters) THEN 0
    ELSE (IF starters[k].position = pos THEN effective_rating(starters[k]) ELSE 0)
         + sum_eff(starters, pos, k + 1)

count_pos(starters, pos) ==
    Cardinality({k \in 1..Len(starters) : starters[k].position = pos})

\* avg(pos) of _compute_line_averages: sum(vals) / len(vals) if vals else 5.0
line_avg(starters, pos) ==
    IF count_pos(starters, pos) = 0 THEN Whole(DEFAULT_AVG)
    ELSE [num |-> sum_eff(starters, pos, 1), den |-> count_pos(starters, pos)]

\* by_pos[POSITION_GK][0] if by_pos.get(POSITION_GK) else 5.0
gk_value(starters) ==
    LET gks == {k \in 1..Len(starters) : starters[k].position = POSITION_GK}
    IN IF gks = {} THEN Whole(DEFAULT_AVG)
       ELSE Whole(effective_rating(starters[CHOOSE k \in gks : \A j \in gks : k <= j]))

_compute_line_averages(starters) ==
    [gk |-> gk_value(starters),
     def |-> line_avg(starters, POSITION_DEF),
     mid |-> line_avg(starters, POSITION_MID),
     fwd |-> line_avg(starters, POSITION_FWD)]

\* a variant that does not read isCanceled
parse_remove_goal_ignoring_flag(bonuses) ==
    LET rg == Get(bonuses, "removeGoal", <<>>)
    IN IF DOMAIN rg = {} THEN [pid |-> "None", canceled |-> FALSE]
       ELSE [pid |-> Get(rg, "playerId", "None"), canceled |-> FALSE]

\* (player_id_cible, is_canceled); a missing target is "None"
_parse_remove_goal(bonuses) ==
    LET rg == Get(bonuses, "removeGoal", <<>>)
    IN IF DOMAIN rg = {} THEN [pid |-> "None", canceled |-> FALSE]
       ELSE [pid |-> Get(rg, "playerId", "None"),
             canceled |-> Get(rg, "isCanceled", FALSE)]

other_side(side) == IF side = "home" THEN "away" ELSE "home"

RECURSIVE own_goals_of(_, _)
own_goals_of(team_data, S) ==
    IF S = {} THEN 0
    ELSE LET s == CHOOSE x \in S : TRUE
             pid == team_data.playersOnPitch[s].playerId
         IN Get(Get(team_data.players, pid, <<>>), "ownGoals", 0)
            + own_goals_of(team_data, S \ {s})

\* a variant that counts the bench as well
count_own_goals_with_bench(d, side) ==
    LET team_data == d[other_side(side)]
        pitch == Get(team_data, "playersOnPitch", <<>>)
    IN own_goals_of(team_data, {s \in DOMAIN pitch : Has(pitch[s], "playerId")})

_count_own_goals(d, side) ==
    LET team_data == d[other_side(side)]
        pitch == Get(team_data, "playersOnPitch", <<>>)
    IN own_goals_of(team_data,
           {s \in DOMAIN pitch : int_of_slot(s) <= LAST_STARTER_SLOT
                                 /\ Has(pitch[s], "playerId")})

\* ---------------------------------------------------------------- simulation

TeamSimResult ==
    [real_goals |-> 0, virtual_goals |-> 0, own_goals |-> 0,
     virtual_scorers |-> <<>>, virtual_scorer_pids |-> {},
     remove_goal_applied |-> FALSE, remove_goal_target |-> "None"]

total_goals(r) == r.real_goals + r.virtual_goals + r.own_goals

\* d.get(key) as an optional value: <<>> is None, <<v>> is v
opt(d, key) == IF Has(d, key) THEN <<d[key]>> ELSE <<>>

\* MatchSimResult's default home_score_actual / away_score_actual (None)
NoScores == [home |-> <<>>, away |-> <<>>]

\* a variant that leaves the recorded scores out of the result
score_actual_dropped(d) == NoScores

\* home_score_actual=data["home"].get("score"), and the same for away
score_actual(d) == [home |-> opt(d.home, "score"), away |-> opt(d.away, "score")]

\* a variant that trusts a recorded mpgGoals in either mode
add_player_goals_recorded_first(result, p, avgs, home, mpg) ==
    LET r1 == IF p.goals_real > 0
              THEN [result EXCEPT !.real_goals = @ + p.goals_real]
              ELSE result
    IN IF p.mpg_goals > 0
       THEN [r1 EXCEPT !.virtual_goals = @ + p.mpg_goals,
                       !.virtual_scorer_pids = @ \cup {p.player_id},
                       !.virtual_scorers = Append(@, p.player_id)]
       ELSE IF ~mpg /\ _simulate_virtual_goal(p, avgs, home)
            THEN [r1 EXCEPT !.virtual_goals = @ + 1,
                            !.virtual_scorer_pids = @ \cup {p.player_id},
                            !.virtual_scorers = Append(@, p.player_id)]
            ELSE r1

\* the body of the loop of _simulate_team_goals for one starter
add_player_goals(result, p, avgs, home, mpg) ==
    LET r1 == IF p.goals_real > 0
              THEN [result EXCEPT !.real_goals = @ + p.goals_real]
              ELSE result
    IN IF mpg
       THEN IF p.mpg_goals > 0
            THEN [r1 EXCEPT !.virtual_goals = @ + p.mpg_goals,
                            !.virtual_scorer_pids = @ \cup {p.player_id},
                            !.virtual_scorers = Append(@, p.player_id)]
            ELSE r1
       ELSE IF _simulate_virtual_goal(p, avgs, home)
            THEN [r1 EXCEPT !.virtual_goals = @ + 1,
                            !.virtual_scorer_pids = @ \cup {p.player_id},
                            !.virtual_scorers = Append(@, p.player_id)]
            ELSE r1

RECURSIVE team_goals_from(_, _, _, _, _, _)
team_goals_from(result, att_starters, k, avgs, home, mpg) ==
    IF k > Len(att_starters) THEN result
    ELSE team_goals_from(add_player_goals(result, att_starters[k], avgs, home, mpg),
                         att_starters, k + 1, avgs, home, mpg)

_simulate_team_goals(att_starters, avgs, home, mpg) ==
    team_goals_from(TeamSimResult, att_starters, 1, avgs, home, mpg)

\* a variant that does not clamp
Max0_unclamped(n) == n

Max0(n) == IF n > 0 THEN n ELSE 0

\* a variant that cancels a virtual goal before a real one
apply_remove_goal_virtual_first(team_result, starters, target_pid) ==
    LET r1 == [team_result EXCEPT !.remove_goal_applied = TRUE,
                                  !.remove_goal_target = target_pid]
        found == {k \in 1..Len(starters) : starters[k].player_id = target_pid}
    IN IF target_pid \in r1.virtual_scorer_pids
       THEN [r1 EXCEPT !.virtual_goals = Max0(@ - 1),
                       !.virtual_scorer_pids = @ \ {target_pid}]
       ELSE IF found # {} /\ starters[CHOOSE k \in found : TRUE].goals_real > 0
            THEN [r1 EXCEPT !.real_goals = Max0(@ - 1)]
            ELSE r1

\* a variant that falls back on any real goal when the target is not found
apply_remove_goal_fallback(team_result, starters, target_pid) ==
    LET r1 == [team_result EXCEPT !.remove_goal_applied = TRUE,
                                  !.remove_goal_target = target_pid]
        found == {k \in 1..Len(starters) : starters[k].player_id = target_pid}
    IN IF found # {}
       THEN IF starters[CHOOSE k \in found : \A j \in found : k <= j].goals_real > 0
            THEN [r1 EXCEPT !.real_goals = Max0(@ - 1)]
            ELSE r1
       ELSE [r1 EXCEPT !.real_goals = Max0(@ - 1)]

_apply_remove_goal(team_result, starters, target_pid) ==
    LET r1 == [team_result EXCEPT !.remove_goal_applied = TRUE,
                                  !.remove_goal_target = target_pid]
        found == {k \in 1..Len(starters) : starters[k].player_id = target_pid}
    IN IF found # {}
       THEN IF starters[CHOOSE k \in found : \A j \in found : k <= j].goals_real > 0
            THEN [r1 EXCEPT !.real_goals = Max0(@ - 1)]
            ELSE r1
       ELSE IF target_pid \in r1.virtual_scorer_pids
            THEN [r1 EXCEPT !.virtual_goals = Max0(@ - 1),
                            !.virtual_scorer_pids = @ \ {target_pid}]
            ELSE r1

\* ------------------------------------------------- the walk, step by step

RawWalkPlayers ==
    {[position |-> pos, rating |-> r, bonusRating |-> b, goals |-> g, canceledGoal |-> c]
        : pos \in 0..4, r \in MinRating..MaxRating, b \in {0, 2},
          g \in 0..MaxGoals, c \in 0..1}

WalkLineValues == {Whole(n) : n \in MinLine..MaxLine} \cup {[num |-> 21, den |-> 2]}

WalkAverages == [gk : WalkLineValues, fwd : WalkLineValues,
                 mid : WalkLineValues, def : WalkLineValues]

\* no simulate_match / simulate_without_bonus call made yet, no corpus read
CallIdle ==
    /\ work = <<>>
    /\ cf_side = "None"
    /\ cf_bonus = "None"
    /\ first_gt = <<>>
    /\ rows = <<>>
    /\ bonus_types = <<>>
    /\ val = <<>>
    /\ agg = <<>>

MatchIdle ==
    /\ data = <<>>
    /\ use_mpg_goals = FALSE
    /\ pc = "idle"
    /\ home_result = TeamSimResult
    /\ away_result = TeamSimResult
    /\ extra = 0
    /\ actual = NoScores
    /\ CallIdle

InitWalk ==
    /\ raw \in RawWalkPlayers
    /\ player = PlayerSlot(2, "p", raw)
    /\ opp_avgs \in WalkAverages
    /\ is_home \in BOOLEAN
    /\ i = 0
    /\ penalty = 0
    /\ wpc = "entry"
    /\ ret = FALSE
    /\ checks = <<>>
    /\ MatchIdle

\* if not player.eligible_for_virtual: return False
CheckEligible ==
    /\ wpc = "entry"
    /\ IF ~eligible_for_virtual(player)
       THEN wpc' = "done" /\ ret' = FALSE
       ELSE wpc' = "loop" /\ ret' = ret
    /\ UNCHANGED <<raw, player, opp_avgs, is_home, i, penalty, checks>>
    /\ UNCHANGED matchVars
    /\ UNCHANGED callVars
    /\ UNCHANGED corpusVars

\* one iteration of "for i, line in enumerate(lines)"
CrossLine ==
    /\ wpc = "loop"
    /\ i < Len(LINES_BY_POS(player.position))
    /\ LET line == LINES_BY_POS(player.position)[i + 1]
           note == effective_rating(player)
           avg == LineAverages_get(opp_avgs, line)
           ok == _can_pass_line(note - penalty, avg, is_home)
       IN /\ checks' = Append(checks, [line |-> line, note |-> note - penalty,
                                         avg |-> avg, passed |-> ok])
          /\ IF ~ok
             THEN wpc' = "done" /\ ret' = FALSE /\ UNCHANGED <<i, penalty>>
             ELSE wpc' = wpc /\ ret' = ret /\ penalty' = penalty + pen(i) /\ i' = i + 1
    /\ UNCHANGED <<raw, player, opp_avgs, is_home>>
    /\ UNCHANGED matchVars
    /\ UNCHANGED callVars
    /\ UNCHANGED corpusVars

\* the loop is exhausted: return True
ReturnTrue ==
    /\ wpc = "loop"
    /\ i >= Len(LINES_BY_POS(player.position))
    /\ wpc' = "done"
    /\ ret' = TRUE
    /\ UNCHANGED <<raw, player, opp_avgs, is_home, i, penalty, checks>>
    /\ UNCHANGED matchVars
    /\ UNCHANGED callVars
    /\ UNCHANGED corpusVars

NextWalk == CheckEligible \/ CrossLine \/ ReturnTrue

SpecWalk == InitWalk /\ [][NextWalk]_vars

\* the step-by-step walk returns what the operator computes
WalkAgrees == wpc = "done" => ret = _simulate_virtual_goal(player, opp_avgs, is_home)

\* ------------------------------------------------- properties of the walk

RawEffective == raw.rating + Get(raw, "bonusRating", 0)

Tie(c) == c.note * c.avg.den = c.avg.num

\* C1 as stated: the k-th line of a walk is compared with the effective rating
\* minus 1.0 + 0.5*(k-1): 1.0 at the first check, 1.5, 2.0 and 2.5 at the next
C1_PenaltyBeforeFirstLine ==
    \A k \in 1..Len(checks) : checks[k].note = RawEffective - (2 + (k - 1))

\* C1 amended: the k-th line of a walk is compared with the effective rating
\* minus the penalties of the lines already crossed: nothing at the first
\* check, then 1.0, 1.5 and 2.0, never reset between lines
C1_PenaltyOfLinesCrossed ==
    \A k \in 1..Len(checks) :
        checks[k].note = RawEffective - (IF k = 1 THEN 0 ELSE 2 + (k - 2))

C1_Witness == wpc = "done" /\ Len(checks) = 4 /\ ret

\* C2: a home attacker crosses a line iff its penalized rating is >= the line
\* value, an away attacker iff it is >; the two outcomes of a check differ only
\* on a tie (home crosses, away does not); a player who scores as away attacker
\* also scores as home attacker
C2_HomeTieBreak ==
    /\ \A k \in 1..Len(checks) :
          LET c == checks[k]
          IN /\ c.passed <=> (IF is_home THEN c.note * c.avg.den >= c.avg.num
                                         ELSE c.note * c.avg.den > c.avg.num)
             /\ _can_pass_line(c.note, c.avg, TRUE) # _can_pass_line(c.note, c.avg, FALSE)
                   => /\ Tie(c)
                      /\ _can_pass_line(c.note, c.avg, TRUE)
                      /\ ~_can_pass_line(c.note, c.avg, FALSE)
             /\ Tie(c) => (c.passed <=> is_home)
    /\ (wpc = "done" /\ ~is_home /\ ret)
          => _simulate_virtual_goal(player, opp_avgs, TRUE)

C2_Witness ==
    /\ wpc = "done" /\ is_home /\ ret
    /\ \E k \in 2..Len(checks) : Tie(checks[k])
    /\ ~_simulate_virtual_goal(player, opp_avgs, FALSE)

C3_Path(pos) ==
    CASE pos = 4 -> <<"def", "gk">>
      [] pos = 3 -> <<"mid", "def", "gk">>
      [] pos = 2 -> <<"fwd", "mid", "def", "gk">>

C3_OffPath(pos) ==
    {"gk", "def", "mid", "fwd"} \ {C3_Path(pos)[k] : k \in 1..Len(C3_Path(pos))}

\* C3: an eligible forward is checked against def then gk, a midfielder against
\* mid, def, gk, a defender against fwd, mid, def, gk; the walk stops at the
\* first failed check; the player adds exactly 1 virtual goal iff every check
\* of its path succeeds, else 0; lines off the path do not matter
C3_OrderedWalk ==
    (wpc \in {"entry", "loop", "done"} /\ eligible_for_virtual(player)
        /\ player.position \in {2, 3, 4})
    => LET path == C3_Path(player.position)
           n == Len(checks)
       IN /\ n <= Len(path)
          /\ \A k \in 1..n : /\ checks[k].line = path[k]
                             /\ checks[k].avg = opp_avgs[path[k]]
          /\ \A k \in 1..(n - 1) : checks[k].passed
          /\ (n > 0 /\ ~checks[n].passed) => wpc = "done"
          /\ wpc = "done" =>
               /\ ret <=> (n = Len(path) /\ \A k \in 1..n : checks[k].passed)
               /\ _simulate_team_goals(<<player>>, opp_avgs, is_home, FALSE).virtual_goals
                     = (IF ret THEN 1 ELSE 0)
               /\ \A line \in C3_OffPath(player.position), v \in WalkLineValues :
                     _simulate_virtual_goal(player, [opp_avgs EXCEPT ![line] = v], is_home)
                        = ret

C3_Witness ==
    /\ wpc = "done" /\ ret /\ player.position = 3 /\ Len(checks) = 3
    /\ opp_avgs.fwd \notin {opp_avgs.mid, opp_avgs.def, opp_avgs.gk}

\* C4: a goalkeeper, a player whose effective rating is below 5.0, and a player
\* with goals + canceledGoal > 0 never score a virtual goal in probabilistic
\* mode, a canceled only goal included
C4_NeverEligible ==
    (wpc = "done"
        /\ \/ Get(raw, "position", 0) = 1
           \/ RawEffective < 10
           \/ Get(raw, "goals", 0) + Get(raw, "canceledGoal", 0) > 0)
    => /\ ~ret
       /\ checks = <<>>
       /\ LET r == _simulate_team_goals(<<player>>, opp_avgs, is_home, FALSE)
          IN r.virtual_goals = 0 /\ r.virtual_scorer_pids = {}

C4_Witness ==
    /\ wpc = "done" /\ ~ret
    /\ raw.goals = 0 /\ raw.canceledGoal = 1 /\ raw.position = 4
    /\ walk_from(RawEffective, C3_Path(4), opp_avgs, is_home, 0, 0)

\* the walk of scenario A: a home forward without real goal, effective rating
\* 6.0, against a defender line of 5.5 and a goalkeeper of 5.0
ScenarioA ==
    /\ wpc = "done" /\ is_home
    /\ raw.position = 4 /\ RawEffective = 12
    /\ raw.goals = 0 /\ raw.canceledGoal = 0
    /\ opp_avgs.def = Whole(11) /\ opp_avgs.gk = Whole(10)

\* C23 as stated: in scenario A the forward crosses the defender line, fails
\* the goalkeeper check and scores no virtual goal
C23_ScenarioANoGoal ==
    ScenarioA => /\ Len(checks) = 2
                 /\ checks[1].passed
                 /\ ~checks[2].passed
                 /\ ~ret

\* C23 amended: in scenario A the forward crosses the defender line unpenalized
\* (6.0 >= 5.5), meets the goalkeeper with the 1.0 penalty of the line crossed
\* (5.0 >= 5.0, a tie the home side wins) and scores a virtual goal
C23_ScenarioAScores ==
    ScenarioA => /\ Len(checks) = 2
                 /\ checks[1].line = "def" /\ checks[1].note = 12 /\ checks[1].passed
                 /\ checks[2].line = "gk" /\ checks[2].note = 10 /\ checks[2].passed
                 /\ ret
                 /\ _simulate_virtual_goal(player, opp_avgs, TRUE)

C23_Witness == ScenarioA /\ ret /\ raw.bonusRating = 2 /\ Tie(checks[2])

\* a home defender, eligible, whose effective rating equals each of the four
\* opposing line values
DefenderFacingOwnRating ==
    /\ wpc = "done" /\ is_home
    /\ raw.position = 2 /\ RawEffective >= 10
    /\ raw.goals = 0 /\ raw.canceledGoal = 0
    /\ \A line \in {"fwd", "mid", "def", "gk"} : opp_avgs[line] = Whole(RawEffective)

\* C24: an eligible home defender whose effective rating equals each of the
\* four opposing line values passes the first check of its walk, is rejected
\* at the second and scores no virtual goal
C24_DefenderStoppedAtSecondLine ==
    DefenderFacingOwnRating
    => /\ Len(checks) = 2
       /\ checks[1].line = "fwd" /\ checks[1].passed
       /\ checks[2].line = "mid" /\ ~checks[2].passed
       /\ ~ret
       /\ ~_simulate_virtual_goal(player, opp_avgs, TRUE)
       /\ _can_pass_line(RawEffective, opp_avgs.mid, TRUE)

C24_Witness == DefenderFacingOwnRating /\ RawEffective = 11 /\ Len(checks) = 2 /\ ~ret

\* C29 as stated: every virtual scorer of probabilistic mode is a defender, a
\* midfielder or a forward and passed at least two line checks; a starter whose
\* position code is missing or none of 1-4 never scores a virtual goal
C29_ScorersCrossTwoLines ==
    /\ (wpc = "done" /\ ret)
          => /\ player.position \in {2, 3, 4}
             /\ Len(checks) >= 2
             /\ \A k \in 1..Len(checks) : checks[k].passed
    /\ (wpc = "done" /\ player.position \notin 1..4) => ~ret

\* ------------------------------------------------- simulate_match, by stages

home_starters == _parse_team_starters(Get(data, "home", <<>>))
away_starters == _parse_team_starters(Get(data, "away", <<>>))

\* home_result / away_result as they stand after "Fix 1 : own goals"
simulated_side(d, side, mpg) ==
    LET att == _parse_team_starters(Get(d, side, <<>>))
        opp == _parse_team_starters(Get(d, other_side(side), <<>>))
    IN [_simulate_team_goals(att, _compute_line_averages(opp), side = "home", mpg)
            EXCEPT !.own_goals = _count_own_goals(d, side)]

\* "if X_rg_pid and not X_rg_canceled: _apply_remove_goal(...)" for the
\* removeGoal declared by the side `by`, applied to its opponent's result
direct_remove_goal(result, d, by) ==
    LET rg == _parse_remove_goal(Get(Get(d, by, <<>>), "bonuses", <<>>))
    IN IF rg.pid # "None" /\ ~rg.canceled
       THEN _apply_remove_goal(result,
                _parse_team_starters(Get(d, other_side(by), <<>>)), rg.pid)
       ELSE result

\* a variant that reflects only a removeGoal the opponent declared neutralized
mirror_remove_goal_when_neutralized(result, d, by) ==
    LET mirror == Get(Get(Get(d, by, <<>>), "bonuses", <<>>), "mirror", <<>>)
        opp_rg == _parse_remove_goal(Get(Get(d, other_side(by), <<>>), "bonuses", <<>>))
    IN IF Has(mirror, "removeGoal") /\ Has(mirror.removeGoal, "playerId")
          /\ opp_rg.canceled
       THEN _apply_remove_goal(result,
                _parse_team_starters(Get(d, other_side(by), <<>>)),
                mirror.removeGoal.playerId)
       ELSE result

\* "Fix 2": the removeGoal embedded in the mirror of the side `by`
mirror_remove_goal(result, d, by) ==
    LET mirror == Get(Get(Get(d, by, <<>>), "bonuses", <<>>), "mirror", <<>>)
    IN IF Has(mirror, "removeGoal") /\ Has(mirror.removeGoal, "playerId")
       THEN _apply_remove_goal(result,
                _parse_team_starters(Get(d, other_side(by), <<>>)),
                mirror.removeGoal.playerId)
       ELSE result

\* one side's TeamSimResult as simulate_match returns it
simulate_match_side(d, side, mpg) ==
    IF Len(_parse_team_starters(Get(d, "home", <<>>))) = 0
          \/ Len(_parse_team_starters(Get(d, "away", <<>>))) = 0
    THEN TeamSimResult
    ELSE mirror_remove_goal(
             direct_remove_goal(simulated_side(d, side, mpg), d, other_side(side)),
             d, other_side(side))

\* del team["bonuses"][key]
del_bonus(d, side, key) ==
    [d EXCEPT ![side].bonuses = [k \in DOMAIN @ \ {key} |-> @[k]]]

\* the payloads simulate_match is given: per side a goalkeeper in slot 1 and a
\* forward in slot 2, a removeGoal and a mirror entry or none
FwdEntries ==
    {[position |-> POSITION_FWD, rating |-> r, goals |-> g, mpgGoals |-> m]
        : r \in {11, 13}, g \in 0..MaxGoals, m \in 0..MaxGoals}

GkEntries == {[position |-> POSITION_GK, rating |-> 10, ownGoals |-> 1]}

RemoveGoalEntries(opp_pid) ==
    {<<>>,
     [removeGoal |-> [playerId |-> opp_pid]],
     [removeGoal |-> [playerId |-> "zz"]],
     [removeGoal |-> [playerId |-> opp_pid, isCanceled |-> TRUE]]}

MirrorEntries(targets) ==
    {<<>>, [mirror |-> <<>>]}
        \cup {[mirror |-> [removeGoal |-> [playerId |-> t]]] : t \in targets}

Teams(gk_pid, fwd_pid, opp_fwd_pid) ==
    {[players |-> (gk_pid :> gk) @@ (fwd_pid :> fw),
      playersOnPitch |-> [s \in {"1", "2"} |->
                             [playerId |-> IF s = "1" THEN gk_pid ELSE fwd_pid]],
      bonuses |-> rg @@ mr]
        : gk \in GkEntries, fw \in FwdEntries,
          rg \in RemoveGoalEntries(opp_fwd_pid),
          mr \in MirrorEntries({opp_fwd_pid})}

WalkIdle ==
    /\ raw = <<>>
    /\ player = <<>>
    /\ opp_avgs = <<>>
    /\ is_home = FALSE
    /\ i = 0
    /\ penalty = 0
    /\ wpc = "idle"
    /\ ret = FALSE
    /\ checks = <<>>

Init ==
    /\ \E h \in Teams("h1", "h2", "a2"), a \in Teams("a1", "a2", "h2") :
           data = [home |-> h, away |-> a]
    /\ use_mpg_goals \in BOOLEAN
    /\ pc = "start"
    /\ home_result = TeamSimResult
    /\ away_result = TeamSimResult
    /\ extra = 0
    /\ actual = NoScores
    /\ WalkIdle
    /\ CallIdle

\* simulate_match up to and including the own goals
Simulate ==
    /\ pc = "start"
    /\ IF Len(home_starters) = 0 \/ Len(away_starters) = 0
       THEN /\ pc' = "done"
            /\ actual' = score_actual(data)
            /\ UNCHANGED <<home_result, away_result>>
       ELSE /\ pc' = "direct"
            /\ home_result' = simulated_side(data, "home", use_mpg_goals)
            /\ away_result' = simulated_side(data, "away", use_mpg_goals)
            /\ UNCHANGED actual
    /\ UNCHANGED <<data, use_mpg_goals, extra>>
    /\ UNCHANGED walkVars
    /\ UNCHANGED callVars
    /\ UNCHANGED corpusVars

\* the two direct removeGoal applications
DirectRemoveGoals ==
    /\ pc = "direct"
    /\ away_result' = direct_remove_goal(away_result, data, "home")
    /\ home_result' = direct_remove_goal(home_result, data, "away")
    /\ pc' = "mirror"
    /\ UNCHANGED <<data, use_mpg_goals, extra, actual>>
    /\ UNCHANGED walkVars
    /\ UNCHANGED callVars
    /\ UNCHANGED corpusVars

\* the two reflected removeGoal applications, and the return
MirrorRemoveGoals ==
    /\ pc = "mirror"
    /\ away_result' = mirror_remove_goal(away_result, data, "home")
    /\ home_result' = mirror_remove_goal(home_result, data, "away")
    /\ pc' = "done"
    /\ actual' = score_actual(data)
    /\ UNCHANGED <<data, use_mpg_goals, extra>>
    /\ UNCHANGED walkVars
    /\ UNCHANGED callVars
    /\ UNCHANGED corpusVars

\* a caller invokes _apply_remove_goal once more on a returned result, aiming
\* at the forward of the side it picks
ExtraRemoveGoal ==
    /\ pc = "done"
    /\ extra < MaxExtra
    /\ Len(home_starters) > 0 /\ Len(away_starters) > 0
    /\ \E side \in {"home", "away"} :
          IF side = "home"
          THEN /\ home_result' = _apply_remove_goal(home_result, home_starters, "h2")
               /\ UNCHANGED away_result
          ELSE /\ away_result' = _apply_remove_goal(away_result, away_starters, "a2")
               /\ UNCHANGED home_result
    /\ extra' = extra + 1
    /\ UNCHANGED <<data, use_mpg_goals, pc, actual>>
    /\ UNCHANGED walkVars
    /\ UNCHANGED callVars
    /\ UNCHANGED corpusVars

Next == Simulate \/ DirectRemoveGoals \/ MirrorRemoveGoals \/ ExtraRemoveGoal

Spec == Init /\ [][Next]_vars

\* ------------------------------------------------- properties of simulate_match

result_of(side) == IF side = "home" THEN home_result ELSE away_result

Sides == {"home", "away"}

Returned == pc = "done" /\ extra = 0

\* the un-neutralized removeGoal target declared by side S, or "None"
DirectTarget(d, S) ==
    LET b == d[S].bonuses
    IN IF Has(b, "removeGoal") /\ Has(b.removeGoal, "playerId")
          /\ ~Get(b.removeGoal, "isCanceled", FALSE)
       THEN b.removeGoal.playerId ELSE "None"

\* the removeGoal target embedded in the mirror entry of side S, or "None"
MirrorTarget(d, S) ==
    LET b == d[S].bonuses
    IN IF Has(b, "mirror") /\ Has(b.mirror, "removeGoal")
          /\ Has(b.mirror.removeGoal, "playerId")
       THEN b.mirror.removeGoal.playerId ELSE "None"

\* the ids of the valid starters of side O: slot 1-11, with a rating
StarterIds(d, O) ==
    {d[O].playersOnPitch[s].playerId :
        s \in {x \in DOMAIN d[O].playersOnPitch :
                  /\ int_of_slot(x) <= 11
                  /\ Has(d[O].playersOnPitch[x], "playerId")
                  /\ Has(Get(d[O].players, d[O].playersOnPitch[x].playerId, <<>>),
                         "rating")}}

RECURSIVE SumField(_, _, _, _)
SumField(d, O, ids, key) ==
    IF ids = {} THEN 0
    ELSE LET q == CHOOSE x \in ids : TRUE
         IN Get(d[O].players[q], key, 0) + SumField(d, O, ids \ {q}, key)

SumRealGoals(d, O) ==
    SumField(d, O, StarterIds(d, O), "goals")
        + SumField(d, O, StarterIds(d, O), "canceledGoal")

RealGoalsOf(d, O, t) ==
    Get(d[O].players[t], "goals", 0) + Get(d[O].players[t], "canceledGoal", 0)

\* C5: after simulate_match and after any further _apply_remove_goal calls on
\* its result, each side's real, virtual and own goals are >= 0 and total_goals
\* is their sum
C5_GoalsNeverNegative ==
    pc \in {"direct", "mirror", "done"} =>
        \A S \in Sides :
            /\ result_of(S).real_goals >= 0
            /\ result_of(S).virtual_goals >= 0
            /\ result_of(S).own_goals >= 0
            /\ total_goals(result_of(S))
                  = result_of(S).real_goals + result_of(S).virtual_goals
                       + result_of(S).own_goals

C5_Witness ==
    /\ pc = "done" /\ extra >= 1
    /\ DirectTarget(data, "home") = "a2" /\ MirrorTarget(data, "home") = "a2"
    /\ away_result.remove_goal_target = "a2"
    /\ SumRealGoals(data, "away") = 1
    /\ away_result.real_goals = 0

\* the one cancellation side S brings against its opponent, or "None" when it
\* brings none or two
SingleTarget(d, S) ==
    IF DirectTarget(d, S) # "None" /\ MirrorTarget(d, S) = "None"
    THEN DirectTarget(d, S)
    ELSE IF DirectTarget(d, S) = "None" /\ MirrorTarget(d, S) # "None"
         THEN MirrorTarget(d, S)
         ELSE "None"

\* C6: a single cancellation aimed at an opposing valid starter with a real
\* goal leaves the opponent's real_goals one below the sum of its starters' real
\* goals and leaves its virtual goals and virtual scorers as they were
C6_RealGoalRemovedFirst ==
    Returned =>
        \A S \in Sides :
            LET O == other_side(S)
                t == SingleTarget(data, S)
            IN (t \in StarterIds(data, O) /\ RealGoalsOf(data, O, t) >= 1)
               => /\ result_of(O).real_goals = SumRealGoals(data, O) - 1
                  /\ result_of(O).virtual_goals
                        = simulated_side(data, O, use_mpg_goals).virtual_goals
                  /\ result_of(O).virtual_scorer_pids
                        = simulated_side(data, O, use_mpg_goals).virtual_scorer_pids

C6_Witness ==
    /\ Returned /\ use_mpg_goals
    /\ SingleTarget(data, "home") = "a2"
    /\ data.away.players["a2"].goals >= 1
    /\ data.away.players["a2"].mpgGoals >= 1
    /\ away_result.virtual_goals >= 1
    /\ "a2" \in away_result.virtual_scorer_pids

\* C7 as stated: an un-neutralized cancellation aimed at an opposing starter
\* without real goal who is a virtual scorer lowers the opponent's virtual_goals
\* by one and removes the player from its virtual scorers
C7_VirtualGoalCancelled ==
    Returned =>
        \A S \in Sides :
            LET O == other_side(S)
                t == DirectTarget(data, S)
                before == simulated_side(data, O, use_mpg_goals)
            IN (/\ t \in StarterIds(data, O)
                /\ MirrorTarget(data, S) = "None"
                /\ RealGoalsOf(data, O, t) = 0
                /\ t \in before.virtual_scorer_pids)
               => /\ result_of(O).virtual_goals = before.virtual_goals - 1
                  /\ t \notin result_of(O).virtual_scorer_pids

\* C8: a removeGoal entry flagged isCanceled is never applied: the opponent's
\* result is the one of the same payload without that entry
C8_NeutralizedNeverApplied ==
    Returned =>
        \A S \in Sides :
            LET O == other_side(S)
                b == data[S].bonuses
                other == simulate_match_side(del_bonus(data, S, "removeGoal"), O,
                                             use_mpg_goals)
            IN (Has(b, "removeGoal") /\ Get(b.removeGoal, "isCanceled", FALSE))
               => /\ result_of(O).real_goals = other.real_goals
                  /\ result_of(O).virtual_goals = other.virtual_goals
                  /\ result_of(O).virtual_scorer_pids = other.virtual_scorer_pids
                  /\ result_of(O).virtual_scorers = other.virtual_scorers
                  /\ result_of(O).remove_goal_applied = other.remove_goal_applied
                  /\ result_of(O).remove_goal_target = other.remove_goal_target

C8_Witness ==
    /\ Returned
    /\ Has(data.home.bonuses, "removeGoal")
    /\ Get(data.home.bonuses.removeGoal, "isCanceled", FALSE)
    /\ data.home.bonuses.removeGoal.playerId = "a2"
    /\ data.away.players["a2"].goals >= 1
    /\ ~away_result.remove_goal_applied
    /\ away_result.real_goals = SumRealGoals(data, "away")

\* C9: the removeGoal embedded in side S's mirror is applied to the result of
\* S's opponent, by the rule of a direct cancellation, and never to S's own
\* result, whatever removeGoal the opponent declared; a mirror without an
\* embedded target cancels nothing
C9_MirrorHitsOpponent ==
    Returned =>
        \A S \in Sides :
            LET O == other_side(S)
                b == data[S].bonuses
                t == MirrorTarget(data, S)
                plain == del_bonus(data, S, "mirror")
                as_direct == [plain EXCEPT ![S].bonuses =
                                 [removeGoal |-> [playerId |-> t]] @@ @]
            IN Has(b, "mirror") =>
                 /\ result_of(S) = simulate_match_side(plain, S, use_mpg_goals)
                 /\ t = "None" =>
                       result_of(O) = simulate_match_side(plain, O, use_mpg_goals)
                 /\ t # "None" =>
                       result_of(O) =
                          _apply_remove_goal(
                              simulate_match_side(plain, O, use_mpg_goals),
                              _parse_team_starters(data[O]), t)
                 /\ (t # "None" /\ DirectTarget(data, S) = "None") =>
                       result_of(O) = simulate_match_side(as_direct, O, use_mpg_goals)

C9_Witness ==
    /\ Returned
    /\ MirrorTarget(data, "home") = "a2"
    /\ ~Has(data.away.bonuses, "removeGoal")
    /\ DirectTarget(data, "home") = "None"
    /\ data.away.players["a2"].goals >= 1
    /\ data.home.players["h2"].goals >= 1
    /\ away_result.real_goals = SumRealGoals(data, "away") - 1
    /\ home_result.real_goals = SumRealGoals(data, "home")

with_player_field(d, side, pid, key, v) ==
    [d EXCEPT ![side].players[pid] = (key :> v) @@ @]

swap_roles(d) == [home |-> d.away, away |-> d.home]

AllPlayers(d) == {<<S, q>> : S \in Sides, q \in {"h1", "h2", "a1", "a2"}}
                    \cap {<<S, q>> \in Sides \X {"h1", "h2", "a1", "a2"} :
                             q \in DOMAIN d[S].players}

\* C10: in ground-truth mode a side's virtual_goals before cancellation is the
\* sum of the recorded mpgGoals of its valid starters, whatever the ratings,
\* bonus ratings and the home/away role; in probabilistic mode it does not
\* depend on any recorded mpgGoals
C10_ModesReadDisjointInputs ==
    pc = "direct" =>
        \A S \in Sides :
            LET v == result_of(S).virtual_goals
            IN IF use_mpg_goals
               THEN /\ v = SumField(data, S, StarterIds(data, S), "mpgGoals")
                    /\ \A sq \in AllPlayers(data), r \in {9, 11, 13, 15} :
                          simulated_side(
                              with_player_field(data, sq[1], sq[2], "rating", r),
                              S, TRUE).virtual_goals = v
                    /\ \A sq \in AllPlayers(data), b \in {-2, 1, 2} :
                          simulated_side(
                              with_player_field(data, sq[1], sq[2], "bonusRating", b),
                              S, TRUE).virtual_goals = v
                    /\ simulated_side(swap_roles(data), other_side(S), TRUE).virtual_goals
                          = v
               ELSE \A sq \in AllPlayers(data), m \in 0..(MaxGoals + 1) :
                          simulated_side(
                              with_player_field(data, sq[1], sq[2], "mpgGoals", m),
                              S, FALSE).virtual_goals = v

C10_Witness ==
    /\ pc = "direct" /\ use_mpg_goals
    /\ home_result.virtual_goals >= 1
    /\ simulated_side(data, "home", FALSE).virtual_goals = 0
    /\ simulated_side(swap_roles(data), "home", FALSE).virtual_goals >= 1

\* the staged simulation returns what simulate_match_side computes
StagesAgree ==
    Returned => \A S \in Sides :
                    result_of(S) = simulate_match_side(data, S, use_mpg_goals)

\* ------------------------------------------------- simulate_without_bonus

\* the MatchSimResult simulate_match returns
simulate_match(d, mpg) ==
    [home |-> simulate_match_side(d, "home", mpg),
     away |-> simulate_match_side(d, "away", mpg),
     actual |-> score_actual(d)]

\* the order in which a payload lists the entries of a players map
KeyOrder == <<"h1", "h2", "h3", "a1", "a2", "a3">>

IsKeyOf(m, k) == k \in DOMAIN m

keys_in_order(m) ==
    LET pick(k) == IsKeyOf(m, k)
    IN SelectSeq(KeyOrder, pick)

\* p["bonusRating"] = (p.get("bonusRating") or 0) - delta
lower_bonus_rating(p, delta) ==
    [k \in DOMAIN p \cup {"bonusRating"} |->
        IF k = "bonusRating" THEN Get(p, "bonusRating", 0) - delta ELSE p[k]]

BOOST_ONE_AMOUNT == 2
BOOST_ALL_DEFAULT == 1
NERF_GK_DEFAULT == -2

\* the boostOnePlayer branch: the first entry of team["players"].values()
\* whose playerId field equals the bonus's playerId, None included
revert_boost_one(d, side) ==
    LET info == d[side].bonuses.boostOnePlayer
        order == keys_in_order(d[side].players)
        hits == {k \in 1..Len(order) :
                    opt(d[side].players[order[k]], "playerId") = opt(info, "playerId")}
    IN IF hits = {} THEN d
       ELSE LET q == order[CHOOSE k \in hits : \A j \in hits : k <= j]
            IN [d EXCEPT ![side].players[q] = lower_bonus_rating(@, BOOST_ONE_AMOUNT)]

\* a variant that lowers the goalkeeper as well
revert_boost_all_with_gk(d, side, bonus_type) ==
    LET delta == Get(d[side].bonuses[bonus_type], "bonusRating", BOOST_ALL_DEFAULT)
    IN [d EXCEPT ![side].players =
           [q \in DOMAIN @ |-> lower_bonus_rating(@[q], delta)]]

\* the boostAllPlayers / nerfAllPlayers branch
revert_boost_all(d, side, bonus_type) ==
    LET delta == Get(d[side].bonuses[bonus_type], "bonusRating", BOOST_ALL_DEFAULT)
    IN [d EXCEPT ![side].players =
           [q \in DOMAIN @ |->
               IF Get(@[q], "position", 0) # POSITION_GK
               THEN lower_bonus_rating(@[q], delta)
               ELSE @[q]]]

\* a variant that adds the stored delta instead of subtracting it
revert_nerf_goalkeeper_added(d, side) ==
    LET delta == Get(d[side].bonuses.nerfGoalkeeper, "bonusRating", NERF_GK_DEFAULT)
        opp == other_side(side)
        gk_slot == Get(d[opp].playersOnPitch, "1", <<>>)
    IN IF Has(gk_slot, "playerId") /\ gk_slot.playerId \in DOMAIN d[opp].players
       THEN [d EXCEPT ![opp].players[gk_slot.playerId] = lower_bonus_rating(@, 0 - delta)]
       ELSE d

\* the nerfGoalkeeper branch
revert_nerf_goalkeeper(d, side) ==
    LET delta == Get(d[side].bonuses.nerfGoalkeeper, "bonusRating", NERF_GK_DEFAULT)
        opp == other_side(side)
        gk_slot == Get(d[opp].playersOnPitch, "1", <<>>)
    IN IF Has(gk_slot, "playerId") /\ gk_slot.playerId \in DOMAIN d[opp].players
       THEN [d EXCEPT ![opp].players[gk_slot.playerId] = lower_bonus_rating(@, delta)]
       ELSE d

\* a variant that leaves the opponent's removeGoal neutralized
revert_mirror_keeping_flag(d, side) == del_bonus(d, side, "mirror")

\* the mirror branch
revert_mirror(d, side) ==
    LET d1 == del_bonus(d, side, "mirror")
        opp == other_side(side)
    IN IF Has(Get(d1[opp], "bonuses", <<>>), "removeGoal")
       THEN [d1 EXCEPT ![opp].bonuses.removeGoal =
                [k \in DOMAIN @ \ {"isCanceled"} |-> @[k]]]
       ELSE d1

\* a variant that reverses blockTacticalSubs as a rating bonus
without_bonus_payload_reverting_subs(d, side, bonus_type) ==
    CASE bonus_type = "boostOnePlayer" -> revert_boost_one(d, side)
      [] bonus_type \in {"boostAllPlayers", "nerfAllPlayers", "blockTacticalSubs"} ->
            revert_boost_all(d, side, bonus_type)
      [] bonus_type = "nerfGoalkeeper" -> revert_nerf_goalkeeper(d, side)
      [] bonus_type = "removeGoal" -> del_bonus(d, side, "removeGoal")
      [] bonus_type = "mirror" -> revert_mirror(d, side)
      [] OTHER -> d

\* the copy of the payload as it stands before the final simulate_match, for
\* a bonus_type that is a key of the side's bonuses
without_bonus_payload(d, side, bonus_type) ==
    CASE bonus_type = "boostOnePlayer" -> revert_boost_one(d, side)
      [] bonus_type \in {"boostAllPlayers", "nerfAllPlayers"} ->
            revert_boost_all(d, side, bonus_type)
      [] bonus_type = "nerfGoalkeeper" -> revert_nerf_goalkeeper(d, side)
      [] bonus_type = "removeGoal" -> del_bonus(d, side, "removeGoal")
      [] bonus_type = "blockTacticalSubs" -> d
      [] bonus_type = "mirror" -> revert_mirror(d, side)
      [] OTHER -> d

\* a variant that always replays in probabilistic mode
without_bonus_mode_always_probabilistic(d, side, bonus_type) == FALSE

\* the mode of the final simulate_match: "if bonus_type not in bonuses: return
\* simulate_match(data)" runs in ground-truth mode, the last line does not
without_bonus_mode(d, side, bonus_type) ==
    ~Has(Get(d[side], "bonuses", <<>>), bonus_type)

\* the payload the final simulate_match is given
without_bonus_work(d, side, bonus_type) ==
    IF ~Has(Get(d[side], "bonuses", <<>>), bonus_type) THEN d
    ELSE without_bonus_payload(d, side, bonus_type)

simulate_without_bonus(d, side, bonus_type) ==
    simulate_match(without_bonus_work(d, side, bonus_type),
                   without_bonus_mode(d, side, bonus_type))

\* a variant in which the reversal writes into the caller's object
caller_object_shared(d, copy) == copy

\* data = copy.deepcopy(data): the reversal writes into the copy, the object
\* the caller passed stays as it was
caller_object(d, copy) == d

\* the payloads the calls are made on: per side a goalkeeper in slot 1 (the
\* away one already nerfed), a forward in slot 2 and a midfielder on the bench
\* in slot 12; one bonus per side or none, one side at least with none or with
\* a cancellation; the entries carry their id in a playerId field, or none does
WithId(p, pid, carry) == IF carry THEN p @@ [playerId |-> pid] ELSE p

CfGk(side) ==
    IF side = "home" THEN [position |-> POSITION_GK, rating |-> 10]
    ELSE [position |-> POSITION_GK, rating |-> 10, bonusRating |-> -2]

CfFwdEntries ==
    {[position |-> POSITION_FWD, rating |-> 11, goals |-> g,
      mpgGoals |-> IF g = 0 THEN 1 ELSE 0] @@ b
        : g \in 0..MaxGoals, b \in {<<>>, [bonusRating |-> 2]}}

CfBench == [position |-> POSITION_MID, rating |-> 12]

CfBonuses(fwd_pid, opp_fwd_pid) ==
    {<<>>,
     [boostOnePlayer |-> [playerId |-> fwd_pid]],
     [boostOnePlayer |-> [playerId |-> "zz"]],
     [boostOnePlayer |-> <<>>],
     [boostAllPlayers |-> <<>>],
     [nerfAllPlayers |-> [bonusRating |-> -1]],
     [nerfGoalkeeper |-> <<>>],
     [nerfGoalkeeper |-> [bonusRating |-> -1]],
     [removeGoal |-> [playerId |-> opp_fwd_pid]],
     [removeGoal |-> [playerId |-> opp_fwd_pid, isCanceled |-> TRUE]],
     [mirror |-> [removeGoal |-> [playerId |-> opp_fwd_pid]]],
     [blockTacticalSubs |-> <<>>]}

CfCancellations(opp_fwd_pid) ==
    {<<>>,
     [removeGoal |-> [playerId |-> opp_fwd_pid, isCanceled |-> TRUE]],
     [mirror |-> [removeGoal |-> [playerId |-> opp_fwd_pid]]]}

CfTeams(side, gk_pid, fwd_pid, bench_pid, opp_fwd_pid, score, carry) ==
    {[players |-> (gk_pid :> WithId(CfGk(side), gk_pid, carry))
                     @@ (fwd_pid :> WithId(fw, fwd_pid, carry))
                     @@ (bench_pid :> WithId(CfBench, bench_pid, carry)),
      playersOnPitch |-> [s \in {"1", "2", "12"} |->
                             [playerId |-> IF s = "1" THEN gk_pid
                                           ELSE IF s = "2" THEN fwd_pid
                                           ELSE bench_pid]],
      bonuses |-> b,
      score |-> score]
        : fw \in CfFwdEntries, b \in CfBonuses(fwd_pid, opp_fwd_pid)}

\* the bonus kinds a caller asks about: those either side used, and one that
\* no branch of simulate_without_bonus handles
KindsAsked(d) == DOMAIN d.home.bonuses \cup DOMAIN d.away.bonuses \cup {"fourStrikers"}

InitWithout ==
    /\ \E carry \in BOOLEAN :
         \E h \in CfTeams("home", "h1", "h2", "h3", "a2", 2, carry),
            a \in CfTeams("away", "a1", "a2", "a3", "h2", 1, carry) :
                /\ h.bonuses \in CfCancellations("a2") \/ a.bonuses \in CfCancellations("h2")
                /\ data = [home |-> h, away |-> a]
    /\ use_mpg_goals = TRUE
    /\ pc = "ready"
    /\ home_result = TeamSimResult
    /\ away_result = TeamSimResult
    /\ extra = 0
    /\ actual = NoScores
    /\ WalkIdle
    /\ CallIdle

\* a call simulate_match(data, use_mpg_goals) on the caller's payload
CallSimulateMatch ==
    /\ pc \in {"ready", "match", "without"}
    /\ use_mpg_goals' \in BOOLEAN
    /\ work' = data
    /\ data' = data
    /\ home_result' = simulate_match_side(work', "home", use_mpg_goals')
    /\ away_result' = simulate_match_side(work', "away", use_mpg_goals')
    /\ actual' = score_actual(work')
    /\ first_gt' = IF use_mpg_goals' /\ first_gt = <<>>
                   THEN <<[home |-> home_result', away |-> away_result',
                           actual |-> actual']>>
                   ELSE first_gt
    /\ pc' = "match"
    /\ cf_side' = "None"
    /\ cf_bonus' = "None"
    /\ UNCHANGED extra
    /\ UNCHANGED walkVars
    /\ UNCHANGED corpusVars

\* a call simulate_without_bonus(data, side, bonus_type) on the caller's payload
CallWithoutBonus ==
    /\ pc \in {"ready", "match", "without"}
    /\ \E side \in {"home", "away"}, bonus_type \in KindsAsked(data) :
          /\ cf_side' = side
          /\ cf_bonus' = bonus_type
          /\ work' = without_bonus_work(data, side, bonus_type)
          /\ data' = caller_object(data, work')
          /\ use_mpg_goals' = without_bonus_mode(data, side, bonus_type)
    /\ home_result' = simulate_match_side(work', "home", use_mpg_goals')
    /\ away_result' = simulate_match_side(work', "away", use_mpg_goals')
    /\ actual' = score_actual(work')
    /\ pc' = "without"
    /\ UNCHANGED <<extra, first_gt>>
    /\ UNCHANGED walkVars
    /\ UNCHANGED corpusVars

NextWithout == CallSimulateMatch \/ CallWithoutBonus

SpecWithout == InitWithout /\ [][NextWithout]_vars

\* ------------------------------------------------- analyze_bonus_impact, one sample

\* goals_x - opp_x of a MatchSimResult, seen from `side`
goal_differential(r, side) ==
    total_goals(r[side]) - total_goals(r[other_side(side)])

_outcome(g, opp) == IF g > opp THEN "W" ELSE IF g < opp THEN "L" ELSE "D"

outcome_of(r, side) ==
    _outcome(total_goals(r[side]), total_goals(r[other_side(side)]))

\* delta = (goals_with - opp_with) - (goals_without - opp_without)
sample_delta(d, side, bt) ==
    goal_differential(simulate_match(d, TRUE), side)
        - goal_differential(simulate_without_bonus(d, side, bt), side)

\* ------------------------------------------------- properties of the calls

\* the MatchSimResult the last call returned
last_result == [home |-> home_result, away |-> away_result, actual |-> actual]

UsedBy(d, side, bt) == Has(Get(d[side], "bonuses", <<>>), bt)

\* C11: when the bonus kind asked about is not a key of the side's bonus map
\* (a kind the engine does not handle and a kind only the opponent used
\* included), simulate_without_bonus returns what simulate_match returns in
\* ground-truth mode on the same payload, so the with/without delta is 0 and
\* the outcome is the same
C11_AbsentKindIsGroundTruth ==
    (pc = "without" /\ ~UsedBy(data, cf_side, cf_bonus))
    => /\ last_result = simulate_match(data, TRUE)
       /\ sample_delta(data, cf_side, cf_bonus) = 0
       /\ outcome_of(last_result, cf_side) = outcome_of(simulate_match(data, TRUE), cf_side)

C11_Witness ==
    /\ pc = "without"
    /\ ~UsedBy(data, cf_side, cf_bonus)
    /\ UsedBy(data, other_side(cf_side), cf_bonus)
    /\ cf_bonus = "boostOnePlayer"
    /\ goal_differential(simulate_match(data, FALSE), cf_side)
          # goal_differential(last_result, cf_side)

\* the payload d without the removeGoal embedded in the mirror entry of side O
without_reflected(d, O) ==
    IF Has(d[O].bonuses, "mirror")
    THEN [d EXCEPT ![O].bonuses.mirror = [k \in DOMAIN @ \ {"removeGoal"} |-> @[k]]]
    ELSE d

\* C12 as stated: in the run without side S's removeGoal that cancellation
\* touches neither result: it is not applied to S's opponent O, and the copy
\* of it embedded in O's mirror entry is not applied to S
C12_RemoveGoalHasNoEffect ==
    (pc = "without" /\ cf_bonus = "removeGoal" /\ UsedBy(data, cf_side, "removeGoal"))
    => LET O == other_side(cf_side)
           clean == without_reflected(del_bonus(data, cf_side, "removeGoal"), O)
       IN /\ ~result_of(O).remove_goal_applied
          /\ result_of(O) = simulate_match_side(clean, O, FALSE)
          /\ ~result_of(cf_side).remove_goal_applied
          /\ result_of(cf_side) = simulate_match_side(clean, cf_side, FALSE)

\* the payload d with the removeGoal of side O declared un-neutralized
un_neutralized(d, O) ==
    IF Has(d[O].bonuses, "removeGoal")
    THEN [d EXCEPT ![O].bonuses.removeGoal = [k \in DOMAIN @ \ {"isCanceled"} |-> @[k]]]
    ELSE d

\* C13: in the run without side S's mirror nothing reflected by that mirror is
\* applied to the opponent O, a removeGoal of O flagged isCanceled in the
\* original payload is applied against S as an un-neutralized one is, and the
\* simulated payload has the ratings and bonus ratings of the original
C13_MirrorRemovedAndRemoveGoalRevived ==
    (pc = "without" /\ cf_bonus = "mirror" /\ UsedBy(data, cf_side, "mirror"))
    => LET S == cf_side
           O == other_side(cf_side)
           plain == del_bonus(data, S, "mirror")
           rg == Get(data[O].bonuses, "removeGoal", <<>>)
       IN /\ result_of(O) = simulate_match_side(plain, O, FALSE)
          /\ DirectTarget(data, S) = "None" => ~result_of(O).remove_goal_applied
          /\ result_of(S) = simulate_match_side(un_neutralized(plain, O), S, FALSE)
          /\ (Get(rg, "isCanceled", FALSE) /\ Has(rg, "playerId")) =>
                /\ result_of(S) =
                      _apply_remove_goal(simulated_side(plain, S, FALSE),
                                         _parse_team_starters(data[S]), rg.playerId)
                /\ result_of(S).remove_goal_applied
                /\ result_of(S).remove_goal_target = rg.playerId
          /\ \A X \in Sides : work[X].players = data[X].players

C13_Witness ==
    /\ pc = "without" /\ cf_bonus = "mirror" /\ cf_side = "home"
    /\ MirrorTarget(data, "home") = "a2"
    /\ Has(data.away.bonuses, "removeGoal")
    /\ Get(data.away.bonuses.removeGoal, "isCanceled", FALSE)
    /\ data.away.bonuses.removeGoal.playerId = "h2"
    /\ data.home.players["h2"].goals >= 1
    /\ data.away.players["a2"].goals >= 1
    /\ home_result.real_goals = SumRealGoals(data, "home") - 1
    /\ away_result.real_goals = SumRealGoals(data, "away")
    /\ simulate_match(data, FALSE).home.real_goals = SumRealGoals(data, "home")
    /\ simulate_match(data, FALSE).away.real_goals = SumRealGoals(data, "away") - 1

\* the payload d in which the player of side S that the boost's target id
\* designates, if any, has its bonus rating lowered by 1.0
boosted_player_lowered(d, S) ==
    LET info == d[S].bonuses.boostOnePlayer
    IN IF Has(info, "playerId") /\ info.playerId \in DOMAIN d[S].players
       THEN [d EXCEPT ![S].players[info.playerId] =
                          lower_bonus_rating(@, BOOST_ONE_AMOUNT)]
       ELSE d

\* C14 as stated: the run without side S's boostOnePlayer is the probabilistic
\* simulation of the original payload in which only the player of S designated
\* by the boost's target id has its bonus rating lowered by 1.0; when the
\* target id designates no player of S the payload is the original one
C14_OnlyTheBoostedPlayerLowered ==
    (pc = "without" /\ cf_bonus = "boostOnePlayer"
        /\ UsedBy(data, cf_side, "boostOnePlayer"))
    => /\ work = boosted_player_lowered(data, cf_side)
       /\ ~use_mpg_goals
       /\ last_result = simulate_match(boosted_player_lowered(data, cf_side), FALSE)

\* the entry p with only its bonus rating changed, to b
SameBut(p, q, b) ==
    /\ DOMAIN q = DOMAIN p \cup {"bonusRating"}
    /\ q.bonusRating = b
    /\ \A k \in DOMAIN p \ {"bonusRating"} : q[k] = p[k]

C16_OnlyOpposingGoalkeeperRestored ==
    (pc = "without" /\ cf_bonus = "nerfGoalkeeper"
        /\ UsedBy(data, cf_side, "nerfGoalkeeper"))
    => LET S == cf_side
           O == other_side(cf_side)
           info == data[S].bonuses.nerfGoalkeeper
           d == IF Has(info, "bonusRating") THEN info.bonusRating ELSE -2
           gk == data[O].playersOnPitch["1"].playerId
           before == Get(data[O].players[gk], "bonusRating", 0)
       IN /\ work[S] = data[S]
          /\ DOMAIN work[O].players = DOMAIN data[O].players
          /\ \A q \in DOMAIN data[O].players \ {gk} :
                work[O].players[q] = data[O].players[q]
          /\ SameBut(data[O].players[gk], work[O].players[gk], before - d)
          /\ d < 0 => work[O].players[gk].bonusRating = before + (0 - d)
          /\ \A k \in DOMAIN data[O] \ {"players"} : work[O][k] = data[O][k]
          /\ ~use_mpg_goals
          /\ last_result = simulate_match(work, FALSE)

C16_Witness ==
    /\ pc = "without" /\ cf_bonus = "nerfGoalkeeper" /\ cf_side = "home"
    /\ ~Has(data.home.bonuses.nerfGoalkeeper, "bonusRating")
    /\ data.away.players["a1"].bonusRating = -2
    /\ work.away.players["a1"].bonusRating = 0
    /\ home_result.virtual_goals = 0
    /\ simulate_match(data, FALSE).home.virtual_goals = 1

BlockedSubsReplayed ==
    pc = "without" /\ cf_bonus = "blockTacticalSubs"
        /\ UsedBy(data, cf_side, "blockTacticalSubs")

\* C17 as stated: for a side that used blockTacticalSubs the run simulates the
\* unmodified payload, the sample's delta is 0 and its outcome is unchanged
C17_BlockedSubsDeltaZero ==
    BlockedSubsReplayed
    => /\ work = data
       /\ sample_delta(data, cf_side, cf_bonus) = 0
       /\ outcome_of(simulate_match(data, TRUE), cf_side) = outcome_of(last_result, cf_side)

\* C17 amended: for a side that used blockTacticalSubs the run is the
\* probabilistic simulation of the unmodified payload; the sample's delta is
\* the ground-truth goal differential minus the probabilistic goal
\* differential of that payload, and is 0 with the outcome unchanged when the
\* two modes give both sides the same virtual goals
C17_BlockedSubsDeltaIsModeGap ==
    BlockedSubsReplayed
    => LET gt == simulate_match(data, TRUE)
           pr == simulate_match(data, FALSE)
       IN /\ work = data
          /\ ~use_mpg_goals
          /\ last_result = pr
          /\ sample_delta(data, cf_side, cf_bonus)
                = goal_differential(gt, cf_side) - goal_differential(pr, cf_side)
          /\ (\A X \in Sides : gt[X].virtual_goals = pr[X].virtual_goals)
                => /\ sample_delta(data, cf_side, cf_bonus) = 0
                   /\ outcome_of(gt, cf_side) = outcome_of(last_result, cf_side)

C17_Witness ==
    /\ BlockedSubsReplayed
    /\ cf_side = "away"
    /\ sample_delta(data, cf_side, cf_bonus) > 0
    /\ outcome_of(simulate_match(data, TRUE), "away") = "D"
    /\ outcome_of(last_result, "away") = "L"

\* ------------------------------------------------- lineups with gaps

\* payloads whose lineups have gaps: per side a goalkeeper in slot 1 and a
\* forward in slot 2, each with or without a rating, a midfielder on the
\* bench in slot 12 who scored a goal and an own goal, and no cancellation, a
\* removeGoal, a mirror with an embedded removeGoal, or both
LineupGkEntries ==
    {[position |-> POSITION_GK, ownGoals |-> o, rating |-> 10] : o \in 0..1}
        \cup {[position |-> POSITION_GK, ownGoals |-> 1]}

LineupFwdEntries ==
    {[position |-> POSITION_FWD, goals |-> g, canceledGoal |-> c, mpgGoals |-> 1] @@ r
        : g \in 0..MaxGoals, c \in 0..1, r \in {<<>>, [rating |-> 12]}}

LineupBench == [position |-> POSITION_MID, rating |-> 12, goals |-> 1, ownGoals |-> 1]

LineupBonuses(opp_fwd_pid, opp_bench_pid) ==
    {<<>>,
     [removeGoal |-> [playerId |-> opp_fwd_pid]],
     [removeGoal |-> [playerId |-> opp_bench_pid]],
     [removeGoal |-> [playerId |-> "zz"]],
     [mirror |-> [removeGoal |-> [playerId |-> opp_fwd_pid]]],
     [removeGoal |-> [playerId |-> opp_fwd_pid],
      mirror |-> [removeGoal |-> [playerId |-> opp_fwd_pid]]]}

LineupTeams(gk_pid, fwd_pid, bench_pid, opp_fwd_pid, opp_bench_pid, score) ==
    {[players |-> (gk_pid :> gk) @@ (fwd_pid :> fw) @@ (bench_pid :> LineupBench),
      playersOnPitch |-> [s \in {"1", "2", "12"} |->
                             [playerId |-> IF s = "1" THEN gk_pid
                                           ELSE IF s = "2" THEN fwd_pid
                                           ELSE bench_pid]],
      bonuses |-> b,
      score |-> score]
        : gk \in LineupGkEntries, fw \in LineupFwdEntries,
          b \in LineupBonuses(opp_fwd_pid, opp_bench_pid)}

InitLineups ==
    /\ \E h \in LineupTeams("h1", "h2", "h3", "a2", "a3", 2),
          a \in LineupTeams("a1", "a2", "a3", "h2", "h3", 1) :
              data = [home |-> h, away |-> a]
    /\ use_mpg_goals \in BOOLEAN
    /\ pc = "start"
    /\ home_result = TeamSimResult
    /\ away_result = TeamSimResult
    /\ extra = 0
    /\ actual = NoScores
    /\ WalkIdle
    /\ CallIdle

SpecLineups == InitLineups /\ [][Next]_vars

\* ------------------------------------------------- properties on lineups with gaps

Degraded(d) == StarterIds(d, "home") = {} \/ StarterIds(d, "away") = {}

\* the own goals of the players in slots 1 and 2 of side O, the only slots of
\* 1..11 these lineups fill
OwnGoalsOfStarters(d, O) ==
    Get(d[O].players[d[O].playersOnPitch["1"].playerId], "ownGoals", 0)
        + Get(d[O].players[d[O].playersOnPitch["2"].playerId], "ownGoals", 0)

\* C18: in a simulated breakdown (both sides have a valid starter) each side's
\* own_goals is the sum of ownGoals over the players in slots 1 to 11 of the
\* opposing lineup, rated or not; the bench is never counted; own_goals is
\* the same in both modes and no direct, mirrored or further cancellation
\* changes it
C18_OwnGoalsOfOpposingStarters ==
    (pc \in {"direct", "mirror", "done"} /\ ~Degraded(data))
    => \A S \in Sides :
          LET O == other_side(S)
              bench == data[O].playersOnPitch["12"].playerId
          IN /\ result_of(S).own_goals = OwnGoalsOfStarters(data, O)
             /\ simulate_match_side(data, S, ~use_mpg_goals).own_goals
                   = result_of(S).own_goals
             /\ \A o \in {0, 2} :
                   _count_own_goals(with_player_field(data, O, bench, "ownGoals", o), S)
                      = result_of(S).own_goals

C18_Witness ==
    /\ pc = "done" /\ extra = 1
    /\ ~Has(data.away.players["a1"], "rating")
    /\ data.away.players["a1"].ownGoals = 1
    /\ data.away.players["a2"].goals >= 1
    /\ data.away.players["a3"].ownGoals = 1
    /\ DirectTarget(data, "away") = "h2"
    /\ home_result.remove_goal_applied
    /\ home_result.own_goals = 1

\* the payload d without any cancellation brought by side S
without_cancellations(d, S) == del_bonus(del_bonus(d, S, "removeGoal"), S, "mirror")

\* C25: a cancellation whose target is no valid starter of the opponent (a
\* bench player, a starter without rating, an unknown id), or is a starter
\* with neither a real nor a virtual goal, leaves the opponent's real, virtual
\* and own goals and its scorers as they are without the cancellation; the
\* call returns
C25_UnmappedTargetIsNoOp ==
    Returned =>
        \A S \in Sides :
            LET O == other_side(S)
                t == SingleTarget(data, S)
                without == simulate_match_side(without_cancellations(data, S), O,
                                               use_mpg_goals)
            IN (/\ t # "None"
                /\ \/ t \notin StarterIds(data, O)
                   \/ /\ RealGoalsOf(data, O, t) = 0
                      /\ t \notin without.virtual_scorer_pids)
               => /\ result_of(O).real_goals = without.real_goals
                  /\ result_of(O).virtual_goals = without.virtual_goals
                  /\ result_of(O).own_goals = without.own_goals
                  /\ result_of(O).virtual_scorer_pids = without.virtual_scorer_pids
                  /\ result_of(O).virtual_scorers = without.virtual_scorers

C25_Witness ==
    /\ Returned /\ ~Degraded(data)
    /\ DirectTarget(data, "home") = "a3"
    /\ DirectTarget(data, "away") = "h2"
    /\ ~Has(data.home.players["h2"], "rating")
    /\ data.home.players["h2"].goals >= 1
    /\ away_result.remove_goal_applied /\ away_result.remove_goal_target = "a3"
    /\ home_result.remove_goal_applied
    /\ away_result.real_goals = SumRealGoals(data, "away")
    /\ home_result.real_goals = SumRealGoals(data, "home")

\* C27 as stated: within one simulate_match call a team's result undergoes at
\* most one cancellation, so its real_goals + virtual_goals ends at most 1
\* below the value before the cancellations, whatever removeGoal and mirror
\* entries the two sides carry
C27_AtMostOneCancellation ==
    /\ pc = "mirror" =>
          \A S \in Sides :
              ~(result_of(other_side(S)).remove_goal_applied
                   /\ MirrorTarget(data, S) # "None")
    /\ (Returned /\ ~Degraded(data)) =>
          \A O \in Sides :
              LET before == simulated_side(data, O, use_mpg_goals)
              IN result_of(O).real_goals + result_of(O).virtual_goals
                    >= before.real_goals + before.virtual_goals - 1

\* C19: when a side has no valid starter simulate_match returns, in either
\* mode, a result with the payload's recorded scores, no real, virtual or own
\* goal on either side and no cancellation recorded, whatever the other side's
\* scorers, own goals and bonuses
C19_DegradedResult ==
    (pc = "done" /\ Degraded(data))
    => /\ actual = [home |-> <<data.home.score>>, away |-> <<data.away.score>>]
       /\ \A S \in Sides :
             /\ result_of(S).real_goals = 0
             /\ result_of(S).virtual_goals = 0
             /\ result_of(S).own_goals = 0
             /\ total_goals(result_of(S)) = 0
             /\ result_of(S).virtual_scorer_pids = {}
             /\ result_of(S).virtual_scorers = <<>>
             /\ ~result_of(S).remove_goal_applied
             /\ result_of(S).remove_goal_target = "None"
       /\ last_result = simulate_match(data, use_mpg_goals)

C19_Witness ==
    /\ pc = "done"
    /\ StarterIds(data, "home") = {}
    /\ StarterIds(data, "away") = {"a1", "a2"}
    /\ data.away.players["a2"].goals >= 1
    /\ data.home.players["h1"].ownGoals = 1
    /\ DirectTarget(data, "home") = "a2"
    /\ actual.home = <<2>> /\ actual.away = <<1>>
    /\ total_goals(away_result) = 0

\* ------------------------------------------------- the caller's payload

AvgGkEntries ==
    {[position |-> POSITION_GK] @@ r @@ b
        : r \in {<<>>, [rating |-> 10]}, b \in {<<>>, [bonusRating |-> -2]}}

AvgFieldEntries ==
    {[position |-> pos] @@ r @@ b
        : pos \in {POSITION_DEF, POSITION_MID, POSITION_FWD},
          r \in {<<>>, [rating |-> MinRating], [rating |-> MaxRating]},
          b \in {<<>>, [bonusRating |-> 1]}}

AvgBenchEntries ==
    {[position |-> pos, rating |-> MaxRating + 2]
        : pos \in {POSITION_DEF, POSITION_MID, POSITION_FWD}}

AvgTeams ==
    {[players |-> [q \in {"h1", "h2", "h3", "h4"} |->
                      IF q = "h1" THEN gk ELSE IF q = "h2" THEN f2
                      ELSE IF q = "h3" THEN f3 ELSE bn],
      playersOnPitch |-> [s \in {"1", "2", "3", "12"} |->
                             [playerId |-> IF s = "1" THEN "h1"
                                           ELSE IF s = "2" THEN "h2"
                                           ELSE IF s = "3" THEN "h3" ELSE "h4"]]]
        : gk \in AvgGkEntries, f2 \in AvgFieldEntries, f3 \in AvgFieldEntries,
          bn \in AvgBenchEntries}

InitAverages ==
    /\ \E h \in AvgTeams : data = [home |-> h]
    /\ use_mpg_goals = FALSE
    /\ pc = "lineup"
    /\ home_result = TeamSimResult
    /\ away_result = TeamSimResult
    /\ extra = 0
    /\ actual = NoScores
    /\ raw = <<>>
    /\ player = <<>>
    /\ opp_avgs = <<>>
    /\ is_home = FALSE
    /\ i = 0
    /\ penalty = 0
    /\ wpc = "idle"
    /\ ret = FALSE
    /\ checks = <<>>
    /\ CallIdle

\* h_avgs = _compute_line_averages(_parse_team_starters(home_data))
ComputeLineAverages ==
    /\ pc = "lineup"
    /\ opp_avgs' = _compute_line_averages(_parse_team_starters(data.home))
    /\ pc' = "averaged"
    /\ UNCHANGED <<raw, player, is_home, i, penalty, wpc, ret, checks>>
    /\ UNCHANGED <<data, use_mpg_goals, home_result, away_result, extra, actual>>
    /\ UNCHANGED callVars
    /\ UNCHANGED corpusVars

NextAverages == ComputeLineAverages

SpecAverages == InitAverages /\ [][NextAverages]_vars

\* the ids of the rated players in slots 1 to 11 of the team that have
\* position pos
RatedInLine(d, pos) ==
    {q \in StarterIds(d, "home") : Get(d.home.players[q], "position", 0) = pos}

EffectiveSum(d, ids) ==
    SumField(d, "home", ids, "rating") + SumField(d, "home", ids, "bonusRating")

LineName(pos) == IF pos = 2 THEN "def" ELSE IF pos = 3 THEN "mid" ELSE "fwd"

\* C26: the defender, midfielder and forward line values of a team are the
\* mean of rating + bonusRating over exactly the players of slots 1 to 11 that
\* have a rating and that position (the bench, rating-less starters and the
\* players of another position do not count); the goalkeeper value is the
\* goalkeeper's own effective rating; a line without such a player is 5.0
C26_LineValuesAreMeans ==
    pc = "averaged" =>
        /\ \A pos \in {2, 3, 4} :
              LET ids == RatedInLine(data, pos)
                  v == opp_avgs[LineName(pos)]
              IN /\ ids = {} => v.num = 10 * v.den
                 /\ ids # {} => v.num * Cardinality(ids) = EffectiveSum(data, ids) * v.den
                 /\ \A q \in DOMAIN data.home.players \ ids, r \in {9, 15} :
                       Has(data.home.players[q], "rating") =>
                          _compute_line_averages(_parse_team_starters(
                              with_player_field(data, "home", q, "rating", r).home))
                                 [LineName(pos)] = v
        /\ LET gks == RatedInLine(data, 1)
           IN /\ gks = {} => opp_avgs.gk = Whole(10)
              /\ gks # {} => opp_avgs.gk = Whole(EffectiveSum(data, gks))

C26_Witness ==
    /\ pc = "averaged"
    /\ RatedInLine(data, 3) = {"h2", "h3"}
    /\ data.home.players["h4"].position = 3
    /\ opp_avgs.mid.den = 2
    /\ opp_avgs.mid.num = MinRating + MaxRating + 1
    /\ opp_avgs.def = Whole(10)
    /\ opp_avgs.gk = Whole(8)

\* ------------------------------------------- validate and analyze_bonus_impact

\* MatchSimResult.matches_actual
matches_actual(r) ==
    /\ r.actual.home # <<>>
    /\ r.actual.away # <<>>
    /\ total_goals(r.home) = r.actual.home[1]
    /\ total_goals(r.away) = r.actual.away[1]

abs(x) == IF x < 0 THEN 0 - x ELSE x

RECURSIVE sum_of(_)
sum_of(seq) == IF seq = <<>> THEN 0 ELSE Head(seq) + sum_of(Tail(seq))

\* x / n * 100 as an exact fraction
pct(x, n) == [num |-> x * 100, den |-> n]

\* exact, near, wrong and diffs before validate's loop
NoneValidated == [exact |-> 0, near |-> 0, wrong |-> 0, diffs |-> <<>>]

\* a variant that calls a match exact as soon as the home total is the recorded one
validate_row_exact_home_only(v, d) ==
    LET r == simulate_match(d, TRUE)
    IN IF r.actual.home = <<>>
       THEN v
       ELSE LET dh == abs(total_goals(r.home) - r.actual.home[1])
                da == abs(total_goals(r.away) - r.actual.away[1])
            IN [exact |-> v.exact + (IF dh = 0 THEN 1 ELSE 0),
                near |-> v.near + (IF dh # 0 /\ dh <= 1 /\ da <= 1 THEN 1 ELSE 0),
                wrong |-> v.wrong + (IF dh # 0 /\ (dh > 1 \/ da > 1) THEN 1 ELSE 0),
                diffs |-> Append(v.diffs, dh + da)]

\* one iteration of validate's loop: the match is skipped when the result
\* carries no home score, otherwise it falls in one of exact, near and wrong
validate_row(v, d) ==
    LET r == simulate_match(d, TRUE)
    IN IF r.actual.home = <<>>
       THEN v
       ELSE LET dh == abs(total_goals(r.home) - r.actual.home[1])
                da == abs(total_goals(r.away) - r.actual.away[1])
            IN [exact |-> v.exact + (IF dh = 0 /\ da = 0 THEN 1 ELSE 0),
                near |-> v.near + (IF ~(dh = 0 /\ da = 0) /\ dh <= 1 /\ da <= 1
                                   THEN 1 ELSE 0),
                wrong |-> v.wrong + (IF dh > 1 \/ da > 1 THEN 1 ELSE 0),
                diffs |-> Append(v.diffs, dh + da)]

\* validate's loop on the rows some_rows, from the k-th row on
RECURSIVE validate_rows(_, _, _)
validate_rows(v, some_rows, k) ==
    IF k > Len(some_rows)
    THEN v
    ELSE validate_rows(validate_row(v, some_rows[k]), some_rows, k + 1)

\* the dict validate returns
validate_report(v) ==
    LET total == v.exact + v.near + v.wrong
    IN [total |-> total,
        exact |-> v.exact,
        near |-> v.near,
        wrong |-> v.wrong,
        exact_pct |-> IF total # 0 THEN pct(v.exact, total) ELSE Whole(0),
        near_pct |-> IF total # 0 THEN pct(v.near, total) ELSE Whole(0),
        avg_diff |-> IF v.diffs # <<>>
                     THEN [num |-> sum_of(v.diffs), den |-> Len(v.diffs)]
                     ELSE Whole(0)]

\* results[bt] before analyze_bonus_impact's loop
NoSamples ==
    [n |-> 0, delta_goals |-> <<>>,
     w_with |-> 0, d_with |-> 0, l_with |-> 0,
     w_without |-> 0, d_without |-> 0, l_without |-> 0,
     result_changed |-> 0]

\* a variant that keeps only the last delta of a kind
add_sample_last_delta(r, delta, outcome_with, outcome_without) ==
    [n |-> r.n + 1,
     delta_goals |-> <<delta>>,
     w_with |-> r.w_with + (IF outcome_with = "W" THEN 1 ELSE 0),
     d_with |-> r.d_with + (IF outcome_with = "D" THEN 1 ELSE 0),
     l_with |-> r.l_with + (IF outcome_with = "L" THEN 1 ELSE 0),
     w_without |-> r.w_without + (IF outcome_without = "W" THEN 1 ELSE 0),
     d_without |-> r.d_without + (IF outcome_without = "D" THEN 1 ELSE 0),
     l_without |-> r.l_without + (IF outcome_without = "L" THEN 1 ELSE 0),
     result_changed |-> r.result_changed
                            + (IF outcome_with # outcome_without THEN 1 ELSE 0)]

\* r["n"] += 1 and the lines after it
add_sample(r, delta, outcome_with, outcome_without) ==
    [n |-> r.n + 1,
     delta_goals |-> Append(r.delta_goals, delta),
     w_with |-> r.w_with + (IF outcome_with = "W" THEN 1 ELSE 0),
     d_with |-> r.d_with + (IF outcome_with = "D" THEN 1 ELSE 0),
     l_with |-> r.l_with + (IF outcome_with = "L" THEN 1 ELSE 0),
     w_without |-> r.w_without + (IF outcome_without = "W" THEN 1 ELSE 0),
     d_without |-> r.d_without + (IF outcome_without = "D" THEN 1 ELSE 0),
     l_without |-> r.l_without + (IF outcome_without = "L" THEN 1 ELSE 0),
     result_changed |-> r.result_changed
                            + (IF outcome_with # outcome_without THEN 1 ELSE 0)]

\* a variant that takes a sample for every kind asked about, used or not
kind_used_always(team_bonuses, bt) == TRUE

\* bt in team_bonuses
kind_used(team_bonuses, bt) == Has(team_bonuses, bt)

\* for bt in bonus_types, from the k-th kind on, for one side of one match: st
\* holds the results so far and the data object of the row, which the calls
\* of the earlier samples were given
RECURSIVE analyze_kinds(_, _, _, _)
analyze_kinds(st, side, kinds, k) ==
    IF k > Len(kinds)
    THEN st
    ELSE LET bt == kinds[k]
             d == st.data
         IN IF ~kind_used(Get(d[side], "bonuses", <<>>), bt)
            THEN analyze_kinds(st, side, kinds, k + 1)
            ELSE LET with_result == simulate_match(d, TRUE)
                     copy == without_bonus_work(d, side, bt)
                     without_result ==
                         simulate_match(copy, without_bonus_mode(d, side, bt))
                     delta == goal_differential(with_result, side)
                                  - goal_differential(without_result, side)
                 IN analyze_kinds(
                        [results |-> [st.results EXCEPT ![bt] =
                                         add_sample(@, delta,
                                                    outcome_of(with_result, side),
                                                    outcome_of(without_result, side))],
                         data |-> caller_object(d, copy)],
                        side, kinds, k + 1)

\* one iteration of for row in rows: both sides, every kind asked about
analyze_row(results, d, kinds) ==
    analyze_kinds(analyze_kinds([results |-> results, data |-> d], "home", kinds, 1),
                  "away", kinds, 1).results

positive_deltas(deltas) ==
    LET positive(x) == x > 0
    IN Len(SelectSeq(deltas, positive))

\* the aggregation: the kinds with no sample are left out
aggregate(results) ==
    [bt \in {b \in DOMAIN results : results[b].n # 0} |->
        LET r == results[bt]
        IN [n_matches |-> r.n,
            avg_goal_delta |-> [num |-> sum_of(r.delta_goals), den |-> r.n],
            pct_positive_delta |-> pct(positive_deltas(r.delta_goals), r.n),
            win_rate_with |-> pct(r.w_with, r.n),
            draw_rate_with |-> pct(r.d_with, r.n),
            loss_rate_with |-> pct(r.l_with, r.n),
            win_rate_without |-> pct(r.w_without, r.n),
            draw_rate_without |-> pct(r.d_without, r.n),
            loss_rate_without |-> pct(r.l_without, r.n),
            result_changed_pct |-> pct(r.result_changed, r.n)]]

\* analyze_bonus_impact on the rows some_rows, from the k-th row on
RECURSIVE analyze_rows(_, _, _, _)
analyze_rows(results, some_rows, kinds, k) ==
    IF k > Len(some_rows)
    THEN results
    ELSE analyze_rows(analyze_row(results, some_rows[k], kinds), some_rows, kinds, k + 1)

analyze_bonus_impact(some_rows, kinds) ==
    aggregate(analyze_rows([bt \in {kinds[k] : k \in DOMAIN kinds} |-> NoSamples],
                           some_rows, kinds, 1))

\* the default of bonus_types
DEFAULT_BONUS_TYPES ==
    <<"boostOnePlayer", "boostAllPlayers", "nerfGoalkeeper",
      "nerfAllPlayers", "removeGoal", "mirror">>

\* the matches of the corpus: per side a goalkeeper in slot 1 and a forward
\* with two real goals in slot 2, the home players rated or not; the home
\* side cancelled a goal, boosted its players or used nothing, the away side
\* cancelled a goal or used nothing; both scores are recorded (2-2), or, in
\* a match without any bonus, none
CorpusPlayer(pos, goals, rating, rated) ==
    [position |-> pos, goals |-> goals]
        @@ (IF rated THEN [rating |-> rating] ELSE <<>>)

CorpusTeam(gk_pid, fwd_pid, rated, b, score) ==
    [players |-> (gk_pid :> CorpusPlayer(POSITION_GK, 0, 10, rated))
                    @@ (fwd_pid :> CorpusPlayer(POSITION_FWD, 2, 11, rated)),
     playersOnPitch |-> [s \in {"1", "2"} |->
                            [playerId |-> IF s = "1" THEN gk_pid ELSE fwd_pid]],
     bonuses |-> b] @@ score

CorpusMatches ==
    {[home |-> CorpusTeam("h1", "h2", rated, hb, [score |-> 2]),
      away |-> CorpusTeam("a1", "a2", TRUE, ab, [score |-> 2])]
        : rated \in BOOLEAN,
          hb \in {<<>>, [removeGoal |-> [playerId |-> "a2"]],
                  [boostAllPlayers |-> <<>>]},
          ab \in {<<>>, [removeGoal |-> [playerId |-> "h2"]]}}
      \cup {[home |-> CorpusTeam("h1", "h2", rated, <<>>, <<>>),
             away |-> CorpusTeam("a1", "a2", TRUE, <<>>, <<>>)]
                : rated \in BOOLEAN}

MaxRows == 2

RECURSIVE Corpora(_)
Corpora(len) ==
    IF len = 0
    THEN {<<>>}
    ELSE LET shorter == Corpora(len - 1)
         IN shorter \cup {Append(c, m) : c \in {x \in shorter : Len(x) = len - 1},
                                         m \in CorpusMatches}

\* the command line: validate(conn), then analyze_bonus_impact(conn) on the
\* rows the queries return
InitCorpus ==
    /\ rows \in Corpora(MaxRows)
    /\ bonus_types = DEFAULT_BONUS_TYPES
    /\ val = [idx |-> 0, locals |-> NoneValidated, report |-> <<>>]
    /\ agg = [idx |-> 0,
              results |-> [bt \in {bonus_types[k] : k \in DOMAIN bonus_types}
                              |-> NoSamples],
              final |-> <<>>]
    /\ pc = "validate"
    /\ data = <<>>
    /\ use_mpg_goals = TRUE
    /\ home_result = TeamSimResult
    /\ away_result = TeamSimResult
    /\ extra = 0
    /\ actual = NoScores
    /\ WalkIdle
    /\ work = <<>>
    /\ cf_side = "None"
    /\ cf_bonus = "None"
    /\ first_gt = <<>>

\* for row in rows, in validate
ValidateRow ==
    /\ pc = "validate"
    /\ val.idx < Len(rows)
    /\ val' = [val EXCEPT !.idx = @ + 1,
                          !.locals = validate_row(@, rows[val.idx + 1])]
    /\ UNCHANGED <<rows, bonus_types, agg>>
    /\ UNCHANGED walkVars
    /\ UNCHANGED matchVars
    /\ UNCHANGED callVars

\* validate's return
ValidateReturn ==
    /\ pc = "validate"
    /\ val.idx = Len(rows)
    /\ val' = [val EXCEPT !.report = validate_report(val.locals)]
    /\ pc' = "analyze"
    /\ UNCHANGED <<rows, bonus_types, agg>>
    /\ UNCHANGED walkVars
    /\ UNCHANGED <<data, use_mpg_goals, home_result, away_result, extra, actual>>
    /\ UNCHANGED callVars

\* for row in rows, in analyze_bonus_impact
AnalyzeRow ==
    /\ pc = "analyze"
    /\ agg.idx < Len(rows)
    /\ agg' = [agg EXCEPT !.idx = @ + 1,
                          !.results = analyze_row(@, rows[agg.idx + 1], bonus_types)]
    /\ UNCHANGED <<rows, bonus_types, val>>
    /\ UNCHANGED walkVars
    /\ UNCHANGED matchVars
    /\ UNCHANGED callVars

\* analyze_bonus_impact's return
AnalyzeReturn ==
    /\ pc = "analyze"
    /\ agg.idx = Len(rows)
    /\ agg' = [agg EXCEPT !.final = aggregate(agg.results)]
    /\ pc' = "reported"
    /\ UNCHANGED <<rows, bonus_types, val>>
    /\ UNCHANGED walkVars
    /\ UNCHANGED <<data, use_mpg_goals, home_result, away_result, extra, actual>>
    /\ UNCHANGED callVars

NextCorpus == ValidateRow \/ ValidateReturn \/ AnalyzeRow \/ AnalyzeReturn

SpecCorpus == InitCorpus /\ [][NextCorpus]_vars

\* ------------------------------------------------ properties of the two reports

\* the (row, side) pairs of the corpus in the order the loops visit them
AllPairs ==
    [j \in 1..(2 * Len(rows)) |->
        [row |-> (j + 1) \div 2, side |-> IF j % 2 = 1 THEN "home" ELSE "away"]]

\* those whose bonus map contains the kind bt
PairsUsing(bt) ==
    LET uses(p) == UsedBy(rows[p.row], p.side, bt)
    IN SelectSeq(AllPairs, uses)

KindsRequested == {bonus_types[k] : k \in DOMAIN bonus_types}

\* C21: when analyze_bonus_impact returns, for every kind asked about the
\* sample count n is the number of (match, side) pairs whose bonus map contains
\* the kind; it is also the number of recorded deltas, the sum of the three
\* outcome counters with the bonus and the sum of the three without; the count
\* of changed outcomes is at most n; the j-th delta is the with differential
\* minus the without differential of the j-th such pair; and the kind is in
\* the returned statistics exactly when n >= 1
C21_SampleCountsAgree ==
    pc = "reported" =>
        \A bt \in KindsRequested :
            LET r == agg.results[bt]
                used == PairsUsing(bt)
            IN /\ r.n = Len(used)
               /\ Len(r.delta_goals) = r.n
               /\ r.w_with + r.d_with + r.l_with = r.n
               /\ r.w_without + r.d_without + r.l_without = r.n
               /\ r.result_changed <= r.n
               /\ \A j \in 1..Len(used) :
                     r.delta_goals[j]
                         = sample_delta(rows[used[j].row], used[j].side, bt)
               /\ (bt \in DOMAIN agg.final) <=> (r.n >= 1)
               /\ (bt \in DOMAIN agg.final) => agg.final[bt].n_matches = r.n

C21_Witness ==
    /\ pc = "reported"
    /\ "mirror" \in KindsRequested
    /\ "mirror" \notin DOMAIN agg.final
    /\ "removeGoal" \in DOMAIN agg.final
    /\ agg.final["removeGoal"].n_matches = 3
    /\ agg.results["removeGoal"].result_changed = 2
    /\ agg.results["removeGoal"].delta_goals = <<1, 1, 0>>

\* the rows with a recorded score
Scored == {k \in 1..Len(rows) : Has(rows[k].home, "score")}

\* C22: when validate returns, every row with a recorded score is counted in
\* exactly one class: exact when matches_actual holds (both totals are the
\* recorded scores), near when it is not exact and both totals are within 1 of
\* the recorded scores, wrong otherwise; total is exact + near + wrong, and
\* avg_diff is the mean over those rows of the two absolute discrepancies added
C22_ValidateClasses ==
    (pc = "analyze" /\ agg.idx = 0) =>
        LET sim == [k \in Scored |-> simulate_match(rows[k], TRUE)]
            dh == [k \in Scored |-> abs(total_goals(sim[k].home) - rows[k].home.score)]
            da == [k \in Scored |-> abs(total_goals(sim[k].away) - rows[k].away.score)]
            ExactRows == {k \in Scored : matches_actual(sim[k])}
            NearRows == {k \in Scored \ ExactRows : dh[k] <= 1 /\ da[k] <= 1}
        IN /\ val.report.exact = Cardinality(ExactRows)
           /\ val.report.near = Cardinality(NearRows)
           /\ val.report.wrong = Cardinality(Scored \ (ExactRows \cup NearRows))
           /\ val.report.total = val.report.exact + val.report.near + val.report.wrong
           /\ val.report.total = Cardinality(Scored)
           /\ \A k \in Scored : k \in ExactRows <=> (dh[k] = 0 /\ da[k] = 0)
           /\ Scored = {} => val.report.avg_diff = Whole(0)
           /\ Scored # {} =>
                 /\ val.report.avg_diff.den = Cardinality(Scored)
                 /\ val.report.avg_diff.num
                       = sum_of([k \in 1..Len(rows) |->
                                    IF k \in Scored THEN dh[k] + da[k] ELSE 0])

C22_Witness ==
    /\ pc = "analyze"
    /\ agg.idx = 0
    /\ Len(rows) = 2
    /\ val.report.exact = 0
    /\ val.report.near = 1
    /\ val.report.wrong = 1
    /\ val.report.near_pct = pct(1, 2)
    /\ val.report.avg_diff = [num |-> 5, den |-> 2]

\* the corpus in the order perm
Reordered(perm) == [k \in 1..Len(rows) |-> rows[perm[k]]]

\* the samples one row contributes when it is the whole corpus
Alone(k) == analyze_rows([bt \in KindsRequested |-> NoSamples], <<rows[k]>>, bonus_types, 1)

\* C28: the statistics analyze_bonus_impact returns are the same for every
\* order in which the rows of the corpus are processed, and what a row adds
\* to a kind (samples, deltas) is what it adds when it is processed alone,
\* whatever was simulated before it
C28_OrderIndependent ==
    pc = "reported" =>
        /\ \A perm \in Permutations(1..Len(rows)) :
              analyze_bonus_impact(Reordered(perm), bonus_types) = agg.final
        /\ LET alone == [k \in 1..Len(rows) |-> Alone(k)]
           IN \A bt \in KindsRequested :
                 /\ agg.results[bt].n
                       = sum_of([k \in 1..Len(rows) |-> alone[k][bt].n])
                 /\ sum_of(agg.results[bt].delta_goals)
                       = sum_of([k \in 1..Len(rows) |->
                                    sum_of(alone[k][bt].delta_goals)])

C28_Witness ==
    /\ pc = "reported"
    /\ Len(rows) = 2
    /\ agg.results["removeGoal"].delta_goals = <<0, 1>>
    /\ analyze_bonus_impact(<<rows[2], rows[1]>>, bonus_types) = agg.final

\* the rows both sides of which have a valid starter
Simulated(d) == ~Degraded(d)

\* C30: a match one side of which has no valid starter is counted neither by
\* validate (exact, near, wrong, avg_diff) nor by analyze_bonus_impact (n, the
\* deltas, the outcome counters): both reports are those of the corpus
\* without such matches
C30_DegradedNeverSampled ==
    pc = "reported" =>
        /\ val.report
              = validate_report(validate_rows(NoneValidated, SelectSeq(rows, Simulated), 1))
        /\ agg.final = analyze_bonus_impact(SelectSeq(rows, Simulated), bonus_types)

====
